---- MODULE Spec2Model ----
(***************************************************************************)
(* Model of backend/src/dataset_generation/piece_image_generator.py:      *)
(* split_board, generate_empty_squares, generate_dataset and the image    *)
(* operations they apply (Image.convert, ndarray.reshape / swapaxes,      *)
(* Image.paste with an RGBA mask, Generator.choice).                       *)
(***************************************************************************)
EXTENDS Integers, Sequences, FiniteSets, TLC

(***************************************************************************)
(* Bounds of the model.                                                    *)
(***************************************************************************)
\* board test patterns are numbered 0..MaxSeed
MaxSeed == 0
\* boards in the listing of the boards directory
MaxBoards == 3
\* piece style sets pieces/1 .. pieces/<n>, n <= MaxSets
MaxSets == 33
\* images asked of generate_dataset (n_data_points)
MaxN == 2
\* board styles in the empty_squares cache
MaxStyles == 1

(***************************************************************************)
(* Constants of the program.                                               *)
(***************************************************************************)
BoardSide == 400
GridSide == 8
TileSide == 50
Channels == 4
NumTiles == 64

(***************************************************************************)
(* numpy index arithmetic (C order).                                       *)
(***************************************************************************)
RECURSIVE RavelAcc(_, _, _, _)
RavelAcc(shape, idx, d, acc) ==
    IF d > Len(shape) THEN acc
    ELSE RavelAcc(shape, idx, d + 1, acc * shape[d] + idx[d])

\* flat offset of the element at multi-index idx of an array of this shape
Ravel(shape, idx) == RavelAcc(shape, idx, 1, 0)

RECURSIVE Stride(_, _)
Stride(shape, d) ==
    IF d >= Len(shape) THEN 1 ELSE shape[d + 1] * Stride(shape, d + 1)

\* multi-index of the element at flat offset n of an array of this shape
Unravel(shape, n) ==
    [d \in 1..Len(shape) |-> (n \div Stride(shape, d)) % shape[d]]

(***************************************************************************)
(* Board images.  A board file decodes to a raster of height x width      *)
(* pixels in some PIL mode; its pixel content is one of a family of test   *)
(* patterns that tell the positions apart.                                 *)
(***************************************************************************)
ImageModes == {"RGBA", "RGB"}

Bands(mode) == IF mode = "RGBA" THEN 4 ELSE IF mode = "RGB" THEN 3 ELSE 1

BoardSizes == {<<400, 400>>, <<400, 350>>, <<800, 200>>}

Boards ==
    [mode : ImageModes, height : {s[1] : s \in BoardSizes},
     width : {s[2] : s \in BoardSizes}, seed : 0..MaxSeed]

ValidBoardFiles == {b \in Boards : <<b.height, b.width>> \in BoardSizes}

\* band value (uint8) of the decoded board file at row y, column x
SrcPixel(b, y, x, band) ==
    (b.seed * 97 + y * 7 + x * 3 + (y \div TileSide) * 31
       + (x \div TileSide) * 57 + band * 11 + ((y * b.width + x) \div 251)) % 256

\* Image.convert('RGBA'): channel ch (0..3) of the converted pixel
ConvertRGBA(b, y, x, ch) ==
    IF b.mode = "RGBA" THEN SrcPixel(b, y, x, ch)
    ELSE IF ch = 3 THEN 255
    ELSE IF b.mode = "RGB" THEN SrcPixel(b, y, x, ch)
    ELSE SrcPixel(b, y, x, 0)

\* np.asarray(board_img).shape after the conversion
ImageShape(b) == <<b.height, b.width, Channels>>

\* image_arr[y, x, ch]
ImageArr(b, y, x, ch) == ConvertRGBA(b, y, x, ch)

\* the flat C-order buffer of image_arr
ImageFlat(b, n) ==
    LET i == Unravel(ImageShape(b), n) IN ImageArr(b, i[1], i[2], i[3])

ShapeOkHeightOnly(b) == ImageShape(b)[1] = BoardSide

\* image_arr.shape == (400,400,4)
ShapeOk(b) == ImageShape(b) = <<BoardSide, BoardSide, Channels>>

\* image_arr.reshape(8,50,8,50,4)[idx]
Reshape5(b, idx) ==
    ImageFlat(b, Ravel(<<GridSide, TileSide, GridSide, TileSide, Channels>>, idx))

SwapAxesNone(idx) == idx

\* swapaxes(1,2): the index into the array being viewed for index idx of the view
SwapAxes(idx) == <<idx[1], idx[3], idx[2], idx[4], idx[5]>>

\* reshaped.swapaxes(1,2)[idx], of shape (8,8,50,50,4)
Swapped(b, idx) == Reshape5(b, SwapAxes(idx))

\* reshaped.reshape(64,50,50,4)[k, r, c, ch]
Reshaped(b, k, r, c, ch) ==
    Swapped(b, Unravel(<<GridSide, GridSide, TileSide, TileSide, Channels>>,
                       Ravel(<<NumTiles, TileSide, TileSide, Channels>>,
                             <<k, r, c, ch>>)))

\* Image.fromarray(reshaped[k,:,:,:]): a 50x50 RGBA raster
SquareImage(b, k) ==
    [r \in 0..(TileSide - 1) |->
        [c \in 0..(TileSide - 1) |->
            [ch \in 0..(Channels - 1) |-> Reshaped(b, k, r, c, ch)]]]

\* split_board raises ValueError on this board
SplitRaises(b) == ~ShapeOk(b)

\* split_board(board_img): the error raised, or the number of squares
\* returned and the square at index k of the list
split_board(b, k) ==
    IF SplitRaises(b) THEN [status |-> "ValueError", count |-> 0, k |-> 0, tile |-> <<>>]
    ELSE [status |-> "ok", count |-> NumTiles, k |-> k, tile |-> SquareImage(b, k)]

VARIABLES
    board,      \* split_board: the board image passed in
    squares,    \* split_board: what it returned, observed at one list index
    es,         \* generate_empty_squares: the listing, the loop, the cache
    pl,         \* piece style sets: the glob listing and the pool per mode
    corpus,     \* generate_dataset: the input files on disk
    stream,     \* the values the generator seeded with 35 yields, in order
    runs,       \* generate_dataset: the state of each run (one per process)
    ps          \* Image.paste: the two images and the pixel observed

splitVars == <<board, squares>>
dataVars == <<corpus, stream, runs>>
vars == <<board, squares, es, pl, corpus, stream, runs, ps>>

NoSquares == [status |-> "none", count |-> 0, k |-> 0, tile |-> <<>>]

NoBoard == [mode |-> "RGBA", height |-> 0, width |-> 0, seed |-> 0]

EsIdle == [paths |-> <<>>, i |-> 0, dirs |-> {}, files |-> {}, pc |-> "idle"]

PlIdle == [listing |-> <<>>, pools |-> <<>>]

PsIdle == [pc |-> "idle"]

SplitIdle == board = NoBoard /\ squares = NoSquares

DataIdle == corpus = <<>> /\ stream = <<>> /\ runs = <<>>

(***************************************************************************)
(* split_board applied to one board image.                                 *)
(***************************************************************************)
InitSplit ==
    /\ board \in ValidBoardFiles
    /\ squares = NoSquares
    /\ es = EsIdle
    /\ pl = PlIdle
    /\ DataIdle
    /\ ps = PsIdle

SplitBoard ==
    /\ squares.status = "none"
    /\ board # NoBoard
    /\ \E k \in 0..(NumTiles - 1) : squares' = split_board(board, k)
    /\ UNCHANGED <<board, es, pl, dataVars, ps>>

NextSplit == SplitBoard

SpecSplit == InitSplit /\ [][NextSplit]_vars

\* C1: split_board returns exactly 64 tiles of 50x50 RGBA pixels in row-major
\* order: pixel (r, c) of tile k is board pixel (50*(k div 8)+r, 50*(k mod 8)+c).
SplitRowMajor ==
    (squares.status = "ok") =>
        /\ squares.count = 64
        /\ DOMAIN squares.tile = 0..49
        /\ \A r \in 0..49 :
              /\ DOMAIN squares.tile[r] = 0..49
              /\ \A c \in 0..49 :
                    squares.tile[r][c] =
                        [ch \in 0..3 |->
                            ImageArr(board, 50 * (squares.k \div 8) + r,
                                     50 * (squares.k % 8) + c, ch)]

SplitRowMajorWitness ==
    /\ squares.status = "ok"
    /\ board.mode = "RGBA"
    /\ squares.k = 12

(***************************************************************************)
(* generate_empty_squares: BOARD_IMAGE_PATHS is the glob listing of the    *)
(* boards directory; board i of the listing goes to empty_squares/<i+1>.   *)
(***************************************************************************)
SeqsUpTo(S, n) == UNION {[1..m -> S] : m \in 0..n}

BoardListings == SeqsUpTo(ValidBoardFiles, MaxBoards)

\* the files <style>/<j+1>.png written for one board
SquareFiles(style) == {<<style, j + 1>> : j \in 0..(NumTiles - 1)}

InitSquares ==
    /\ SplitIdle
    /\ pl = PlIdle
    /\ DataIdle
    /\ ps = PsIdle
    /\ \E listing \in BoardListings :
          es = [paths |-> listing, i |-> 0, dirs |-> {}, files |-> {}, pc |-> "loop"]

\* one pass of the loop over BOARD_IMAGE_PATHS: makedirs, open, split, save
EmptySquaresStep ==
    /\ es.pc = "loop"
    /\ es.i < Len(es.paths)
    /\ LET style == es.i + 1
       IN  es' = IF SplitRaises(es.paths[es.i + 1])
                 THEN [es EXCEPT !.dirs = @ \cup {style},
                                 !.pc = "ValueError"]
                 ELSE [es EXCEPT !.i = @ + 1,
                                 !.dirs = @ \cup {style},
                                 !.files = @ \cup SquareFiles(style)]
    /\ UNCHANGED <<splitVars, pl, dataVars, ps>>

\* the loop is exhausted: generate_empty_squares returns
EmptySquaresReturn ==
    /\ es.pc = "loop"
    /\ es.i = Len(es.paths)
    /\ es' = [es EXCEPT !.pc = "done"]
    /\ UNCHANGED <<splitVars, pl, dataVars, ps>>

NextSquares == EmptySquaresStep \/ EmptySquaresReturn

SpecSquares == InitSquares /\ [][NextSquares]_vars

\* the decoded board file is not 400x400 pixels with 4 channels
BadDecodedShape(b) ==
    ~(b.height = 400 /\ b.width = 400 /\ Bands(b.mode) = 4)

\* the board is not 400x400 pixels
BadSize(b) == ~(b.height = 400 /\ b.width = 400)

\* the boards the loop has met so far
BoardsMet == IF es.pc = "ValueError" THEN 1..(es.i + 1) ELSE 1..es.i

\* C6 as stated: a board whose decoded shape is not 400x400x4 makes the run
\* fail with a validation error and leaves no square file in the cache.
SplitBadShapeNoFiles ==
    \A n \in BoardsMet :
        BadDecodedShape(es.paths[n]) => (es.pc = "ValueError" /\ es.files = {})

\* C6 amended: a board whose size is not 400x400 pixels makes the run fail
\* with a validation error whatever its mode, no square of that board or of a
\* later one is written, and exactly the 64 squares of each earlier board
\* stay in the cache; a 400x400 board of any mode is accepted.
SplitBadSizeAborts ==
    /\ \A n \in 1..Len(es.paths) :
          (n \in BoardsMet /\ BadSize(es.paths[n])) =>
              /\ es.pc = "ValueError"
              /\ es.i = n - 1
    /\ (es.pc = "ValueError") => BadSize(es.paths[es.i + 1])
    /\ (es.pc # "idle") => es.files = UNION {SquareFiles(n) : n \in 1..es.i}

SplitBadSizeAbortsWitness ==
    /\ es.pc = "ValueError"
    /\ es.i = 1
    /\ es.paths[1].mode = "RGB"
    /\ Cardinality(es.files) = 64

(***************************************************************************)
(* Piece style sets.  The sets are the directories pieces/1, pieces/2, ... *)
(* and glob lists them in an order of the filesystem's choosing; sorted()  *)
(* orders the paths as strings, that is, the names by their characters.    *)
(***************************************************************************)
RECURSIVE Digits(_)
\* str(n): the decimal digits of n
Digits(n) == IF n < 10 THEN <<n>> ELSE Append(Digits(n \div 10), n % 10)

RECURSIVE StrLess(_, _)
\* a < b for strings, given as their character codes
StrLess(a, b) ==
    IF b = <<>> THEN FALSE
    ELSE IF a = <<>> THEN TRUE
    ELSE IF Head(a) # Head(b) THEN Head(a) < Head(b)
    ELSE StrLess(Tail(a), Tail(b))

\* the path of piece set n sorts before that of piece set m
PathLess(n, m) == StrLess(Digits(n), Digits(m))

RECURSIVE Insert(_, _)
Insert(sorted, x) ==
    IF sorted = <<>> THEN <<x>>
    ELSE IF PathLess(x, Head(sorted)) THEN <<x>> \o sorted
    ELSE <<Head(sorted)>> \o Insert(Tail(sorted), x)

RECURSIVE SortPaths(_)
SortPaths(seq) ==
    IF seq = <<>> THEN <<>>
    ELSE Insert(SortPaths(SubSeq(seq, 1, Len(seq) - 1)), seq[Len(seq)])

Unsorted(seq) == seq

\* sorted(piece_sets)
Sorted(seq) == SortPaths(seq)

Min(a, b) == IF a < b THEN a ELSE b

\* seq[lo:hi] of Python, for 0 <= lo <= hi
Slice(seq, lo, hi) == SubSeq(seq, Min(lo, Len(seq)) + 1, Min(hi, Len(seq)))

Modes == {"train", "test", "all", "mixed", "bogus"}

RangeSliceLenient(mode) ==
    IF mode = "train" THEN <<0, 16>>
    ELSE IF mode = "test" THEN <<16, 32>>
    ELSE <<0, 32>>

RangeSliceOverlap(mode) ==
    IF mode = "train" THEN <<0, 16>>
    ELSE IF mode = "test" THEN <<15, 32>>
    ELSE IF mode = "all" THEN <<0, 32>>
    ELSE <<>>

\* range_slice for the mode; <<>> when the mode raises ValueError
RangeSlice(mode) ==
    IF mode = "train" THEN <<0, 16>>
    ELSE IF mode = "test" THEN <<16, 32>>
    ELSE IF mode = "all" THEN <<0, 32>>
    ELSE <<>>

\* the piece sets generate_dataset draws from in this mode
PiecePool(listing, mode) ==
    IF RangeSlice(mode) = <<>> THEN [status |-> "ValueError", sets |-> <<>>]
    ELSE [status |-> "ok",
          sets |-> Slice(Sorted(listing), RangeSlice(mode)[1], RangeSlice(mode)[2])]

\* orders in which glob may list the piece sets 1..n
Listings(n) ==
    { [i \in 1..n |-> i],
      [i \in 1..n |-> n + 1 - i],
      [i \in 1..n |-> IF i % 2 = 1 THEN (i + 1) \div 2 ELSE n + 1 - (i \div 2)] }

Unset == [status |-> "unset", sets |-> <<>>]

InitPool ==
    /\ SplitIdle
    /\ es = EsIdle
    /\ DataIdle
    /\ ps = PsIdle
    /\ \E n \in 0..MaxSets : \E l \in Listings(n) :
          pl = [listing |-> l, pools |-> [m \in Modes |-> Unset]]

SelectPool ==
    /\ pl # PlIdle
    /\ \E mode \in Modes :
          /\ pl.pools[mode] = Unset
          /\ pl' = [pl EXCEPT !.pools[mode] = PiecePool(pl.listing, mode)]
    /\ UNCHANGED <<splitVars, es, dataVars, ps>>

NextPool == SelectPool

SpecPool == InitPool /\ [][NextPool]_vars

Range(seq) == {seq[i] : i \in 1..Len(seq)}

PoolsKnown(ms) == pl # PlIdle /\ \A m \in ms : pl.pools[m] # Unset

\* C3: the train pool and the test pool are disjoint, and the pool of mode
\* "all" is their union, with no style set twice.
PoolsDisjointUnion ==
    PoolsKnown({"train", "test", "all"}) =>
        /\ Range(pl.pools["train"].sets) \cap Range(pl.pools["test"].sets) = {}
        /\ Range(pl.pools["all"].sets) =
              Range(pl.pools["train"].sets) \cup Range(pl.pools["test"].sets)
        /\ Cardinality(Range(pl.pools["all"].sets)) = Len(pl.pools["all"].sets)
        /\ Len(pl.pools["all"].sets) =
              Len(pl.pools["train"].sets) + Len(pl.pools["test"].sets)

PoolsDisjointUnionWitness ==
    /\ PoolsKnown({"train", "test", "all"})
    /\ Len(pl.listing) = 33
    /\ pl.listing[1] = 33
    /\ Len(pl.pools["test"].sets) = 16

\* the number of piece sets whose path sorts before that of set x
Rank(x) == Cardinality({y \in Range(pl.listing) : PathLess(y, x)})

Ascending(seq) == \A i \in 1..(Len(seq) - 1) : PathLess(seq[i], seq[i + 1])

HalfOf(n) == n \div 2

\* C4 as stated: train is the first half of the sorted style sets, test the
\* second half, "all" and "mixed" the entire set, for any number of sets.
PoolsAreHalves ==
    LET n == Len(pl.listing)
        PoolIs(m, lo, hi) ==
            (pl.pools[m] # Unset) =>
                /\ pl.pools[m].status = "ok"
                /\ Ascending(pl.pools[m].sets)
                /\ Range(pl.pools[m].sets) =
                      {x \in Range(pl.listing) : Rank(x) >= lo /\ Rank(x) < hi}
    IN  (pl # PlIdle) =>
            /\ PoolIs("train", 0, HalfOf(n))
            /\ PoolIs("test", HalfOf(n), n)
            /\ PoolIs("all", 0, n)
            /\ PoolIs("mixed", 0, n)

\* C4 amended: train is the first 16 of the sorted style sets, test the 17th
\* to the 32nd, "all" the first 32, and every other mode, "mixed" included,
\* is rejected; with exactly 32 style sets these are the first half, the
\* second half and the entire set.
PoolsAreFixedSlices ==
    LET n == Len(pl.listing)
        PoolIs(m, lo, hi) ==
            (pl.pools[m] # Unset) =>
                /\ pl.pools[m].status = "ok"
                /\ Ascending(pl.pools[m].sets)
                /\ Range(pl.pools[m].sets) =
                      {x \in Range(pl.listing) : Rank(x) >= lo /\ Rank(x) < hi}
    IN  (pl # PlIdle) =>
            /\ PoolIs("train", 0, 16)
            /\ PoolIs("test", 16, 32)
            /\ PoolIs("all", 0, 32)
            /\ \A m \in Modes \ {"train", "test", "all"} :
                  (pl.pools[m] # Unset) => pl.pools[m].status = "ValueError"
            /\ (n = 32) =>
                  /\ PoolIs("train", 0, HalfOf(n))
                  /\ PoolIs("test", HalfOf(n), n)
                  /\ PoolIs("all", 0, n)

PoolsAreFixedSlicesWitness ==
    /\ PoolsKnown({"train", "test", "all", "mixed"})
    /\ Len(pl.listing) = 33
    /\ pl.listing[1] = 33
    /\ pl.pools["train"].sets[2] = 10
    /\ pl.pools["mixed"].status = "ValueError"

(***************************************************************************)
(* generate_dataset.  Strings that the code slices are sequences of        *)
(* characters.  An image is the file it was opened from and the sprites    *)
(* pasted on it since; its pixels follow from these by PastePixel below.   *)
(***************************************************************************)
\* the values one draw of the generator may yield, as numerators of u in [0,1)
Variates == {0, 1, 2}

NumVariates == Cardinality(Variates)

\* rng.choice(seq) when the generator yields u
Choice(seq, u) == seq[((u * Len(seq)) \div NumVariates) + 1]

\* the sprite files of a complete piece set
SpriteFiles ==
    << <<"k", "_", "b", ".", "p", "n", "g">>, <<"r", "_", "w", ".", "p", "n", "g">> >>

Reverse(seq) == [i \in 1..Len(seq) |-> seq[Len(seq) + 1 - i]]

\* a directory listing in one of the orders the filesystem may give
Listed(seq, order) == IF order = "asc" THEN seq ELSE Reverse(seq)

\* name[:-4]
DropExt(name) == SubSeq(name, 1, Len(name) - 4)

\* PIECE_NAMES: the names in pieces/1 in listing order, 'e' inserted first
PIECE_NAMES(order) ==
    <<<<"e">>>> \o [i \in 1..Len(SpriteFiles) |-> DropExt(Listed(SpriteFiles, order)[i])]

DataDir == <<"d", "a", "t", "a", "/">>

\* DATA_PATHS: one directory per label
DATA_PATHS(order) ==
    [i \in 1..Len(PIECE_NAMES(order)) |-> DataDir \o PIECE_NAMES(order)[i]]

\* the squares generate_empty_squares cached for this many board styles
CachedSquares(styles) ==
    [n \in 1..(styles * NumTiles) |->
        <<((n - 1) \div NumTiles) + 1, ((n - 1) % NumTiles) + 1>>]

\* glob(PIECES_PATH/*) in the order of this run
PieceSetListing(nsets, order) ==
    IF order = "asc" THEN [i \in 1..nsets |-> i] ELSE [i \in 1..nsets |-> nsets + 1 - i]

\* the input files: nsets piece sets, the squares of `styles` board styles,
\* the sprite files absent from their set, the square files that do not decode
Corpora ==
    {c \in [nsets : {1, MaxSets}, styles : {0, MaxStyles},
            missing : {{}, {<<19, SpriteFiles[1]>>, <<29, SpriteFiles[2]>>}},
            unreadable : {{}, {<<1, 22>>}}] :
        /\ \A m \in c.missing : m[1] <= c.nsets
        /\ \A u \in c.unreadable : u[1] <= c.styles
        /\ c.missing = {} \/ c.unreadable = {}}

SpriteExists(set, file) ==
    /\ set \in 1..corpus.nsets
    /\ \E i \in 1..Len(SpriteFiles) : SpriteFiles[i] = file
    /\ <<set, file>> \notin corpus.missing

\* Image.open(path).convert('RGBA')
Open(path) == [base |-> path, pasted |-> <<>>]

\* img.paste(piece, mask=piece)
Paste(img, piece) == [img EXCEPT !.pasted = Append(@, piece.base)]

\* piece_path[-3:]
PieceNameOf(piece_path) == SubSeq(piece_path, Len(piece_path) - 2, Len(piece_path))

EmptyAlways(piece_path) == TRUE

EmptyNever(piece_path) == FALSE

\* piece_path[-1] == 'e'
IsEmptyLabel(piece_path) == piece_path[Len(piece_path)] = "e"

\* os.path.join(piece_path, f"{i}.png")
SavePath(piece_path, i) == [dir |-> piece_path, name |-> i]

\* img.save(save_path)
Save(tree, save_path, img) ==
    {f \in tree : f.path # save_path} \cup {[path |-> save_path, image |-> img]}

Skip(run, type, line) == [run EXCEPT !.i = @ + 1]

\* an exception raised in the loop body: nothing catches it
Raise(run, type, line) == [run EXCEPT !.pc = type, !.err = line]

Drew(run, kind, pick) ==
    [run EXCEPT !.cursor = @ + 1,
                !.draws = Append(@, [iter |-> run.i, kind |-> kind, pick |-> pick])]

\* one pass of the loop of generate_dataset, the generator yielding strm
Iterate(run, strm) ==
    LET piece_path == Choice(DATA_PATHS(run.order), strm[run.cursor + 1])
        run1 == Drew(run, "label", piece_path)
        save_path == SavePath(piece_path, run.i)
    IN  IF run.squares = <<>> THEN Raise(run1, "ValueError", 186)
        ELSE
        LET empty_square == Choice(run.squares, strm[run1.cursor + 1])
            run2 == Drew(run1, "square", empty_square)
        IN  IF empty_square \in corpus.unreadable
            THEN Raise(run2, "UnidentifiedImageError", 189)
            ELSE IF IsEmptyLabel(piece_path)
            THEN [run2 EXCEPT !.tree = Save(@, save_path, Open(empty_square)),
                              !.i = @ + 1]
            ELSE IF run.pieceSets = <<>> THEN Raise(run2, "ValueError", 194)
            ELSE
            LET piece_set == Choice(run.pieceSets, strm[run2.cursor + 1])
                run3 == Drew(run2, "piece_set", piece_set)
                piece_name == PieceNameOf(piece_path)
                piece_file == piece_name \o <<".", "p", "n", "g">>
            IN  IF ~SpriteExists(piece_set, piece_file)
                THEN Raise(run3, "FileNotFoundError", 199)
                ELSE [run3 EXCEPT
                        !.tree = Save(@, save_path,
                                      Paste(Open(empty_square),
                                            Open(<<piece_set, piece_file>>))),
                        !.i = @ + 1]

NewRun(order, mode, n) ==
    [order |-> order, mode |-> mode, n |-> n, pc |-> "start", err |-> 0, i |-> 0,
     cursor |-> 0, draws |-> <<>>, tree |-> {}, squares |-> <<>>, pieceSets |-> <<>>]

Orders == {"asc", "desc"}

Finished(run) == run.pc \notin {"start", "loop"}

\* the runs are separate processes, run one after the other
Turn(r) == \A q \in DOMAIN runs : q < r => Finished(runs[q])

OthersIdle == SplitIdle /\ es = EsIdle /\ pl = PlIdle /\ ps = PsIdle

InitData ==
    /\ OthersIdle
    /\ corpus \in Corpora
    /\ stream = <<>>
    /\ \E o \in Orders, m \in Modes, n \in 0..MaxN :
          runs = [r \in {1} |-> NewRun(o, m, n)]

\* two runs of the same n and mode on the same corpus
InitTwoRuns ==
    /\ OthersIdle
    /\ corpus \in {c \in Corpora : c.missing = {} /\ c.unreadable = {} /\ c.styles > 0}
    /\ stream = <<>>
    /\ \E o1 \in Orders, o2 \in Orders, m \in {"train", "test", "all"}, n \in 1..MaxN :
          runs = [r \in {1, 2} |-> NewRun(IF r = 1 THEN o1 ELSE o2, m, n)]

\* generate_dataset up to the loop: the mode, the two globs, the slice
Start(r) ==
    /\ Turn(r)
    /\ runs[r].pc = "start"
    /\ LET run == runs[r]
           pool == PiecePool(PieceSetListing(corpus.nsets, run.order), run.mode)
       IN  runs' = [runs EXCEPT ![r] =
                IF pool.status # "ok" THEN [run EXCEPT !.pc = pool.status, !.err = 166]
                ELSE [run EXCEPT !.pc = "loop",
                                 !.squares = Listed(CachedSquares(corpus.styles), run.order),
                                 !.pieceSets = pool.sets]]
    /\ UNCHANGED <<splitVars, es, pl, ps, corpus, stream>>

\* the values the generator may yield at position k of its sequence: the one
\* it has yielded there before (the seed fixes the sequence), or any
Yields(k) == IF k <= Len(stream) THEN {stream[k]} ELSE Variates

\* one pass of the loop
Iteration(r) ==
    /\ Turn(r)
    /\ runs[r].pc = "loop"
    /\ runs[r].i < runs[r].n
    /\ LET c == runs[r].cursor
       IN  \E u1 \in Yields(c + 1), u2 \in Yields(c + 2), u3 \in Yields(c + 3) :
              LET full == SubSeq(stream, 1, c) \o <<u1, u2, u3>>
                  new == Iterate(runs[r], full)
              IN  /\ stream' = IF new.cursor > Len(stream)
                               THEN SubSeq(full, 1, new.cursor) ELSE stream
                  /\ runs' = [runs EXCEPT ![r] = new]
    /\ UNCHANGED <<splitVars, es, pl, ps, corpus>>

\* range(int(n_data_points)) is exhausted
Return(r) ==
    /\ Turn(r)
    /\ runs[r].pc = "loop"
    /\ runs[r].i = runs[r].n
    /\ runs' = [runs EXCEPT ![r].pc = "done"]
    /\ UNCHANGED <<splitVars, es, pl, ps, corpus, stream>>

DatasetStart == \E r \in DOMAIN runs : Start(r)

DatasetIteration == \E r \in DOMAIN runs : Iteration(r)

DatasetReturn == \E r \in DOMAIN runs : Return(r)

NextData == DatasetStart \/ DatasetIteration \/ DatasetReturn

SpecData == InitData /\ [][NextData]_vars

SpecTwoRuns == InitTwoRuns /\ [][NextData]_vars

(***************************************************************************)
(* Properties of generate_dataset.                                         *)
(***************************************************************************)
DrawsOf(run, i) == SelectSeq(run.draws, LAMBDA d : d.iter = i)

KindsOf(run, i) ==
    LET ds == DrawsOf(run, i) IN [k \in 1..Len(ds) |-> ds[k].kind]

\* iteration i drew from the list of this kind
HasDraw(run, i, kind) ==
    \E k \in 1..Len(run.draws) : run.draws[k].iter = i /\ run.draws[k].kind = kind

\* what iteration i drew from the list of this kind
Picked(run, i, kind) ==
    run.draws[CHOOSE k \in 1..Len(run.draws) :
                  run.draws[k].iter = i /\ run.draws[k].kind = kind].pick

IsPrefix(a, b) == Len(a) <= Len(b) /\ a = SubSeq(b, 1, Len(a))

LoopErrors == {"ValueError", "UnidentifiedImageError", "FileNotFoundError"}

FailedInLoop(run) == run.pc \in LoopErrors /\ run.err # 166

EmptyDir == DataDir \o <<"e">>

\* C5: a mode that is not recognized fails with ValueError before any draw,
\* any iteration and any write.
ModeRejectedFirst ==
    \A r \in DOMAIN runs :
        (runs[r].mode \notin {"train", "test", "all"} /\ runs[r].pc # "start") =>
            /\ runs[r].pc = "ValueError"
            /\ runs[r].err = 166
            /\ runs[r].cursor = 0
            /\ runs[r].draws = <<>>
            /\ stream = <<>>
            /\ runs[r].i = 0
            /\ runs[r].tree = {}

ModeRejectedFirstWitness ==
    /\ DOMAIN runs = {1}
    /\ runs[1].mode = "bogus"
    /\ runs[1].n = 2
    /\ runs[1].pc = "ValueError"
    /\ corpus.styles > 0

\* C7: iteration i of a run persists exactly one image, <label of i>/<i>.png:
\* the square drawn in i as it is when the label is empty, else with the
\* sprite of the label's piece pasted on it; a finished run of count N holds
\* exactly N files, one per index 0..N-1.
OneImagePerIteration ==
    \A r \in DOMAIN runs :
        LET run == runs[r]
            named(i) == {f \in run.tree : f.path.name = i}
            pieceOf(label) == SubSeq(label, Len(DataDir) + 1, Len(label))
        IN  /\ \A i \in 0..(run.i - 1) :
                  LET label == Picked(run, i, "label")
                      square == Picked(run, i, "square")
                  IN  /\ Cardinality(named(i)) = 1
                      /\ \A f \in named(i) :
                            /\ f.path.dir = label
                            /\ f.image.base = square
                            /\ IF label = EmptyDir THEN f.image.pasted = <<>>
                               ELSE /\ HasDraw(run, i, "piece_set")
                                    /\ f.image.pasted =
                                          << <<Picked(run, i, "piece_set"),
                                               pieceOf(label) \o <<".", "p", "n", "g">> >> >>
            /\ \A f \in run.tree : f.path.name \in 0..(run.i - 1)
            /\ (run.pc = "done") =>
                  /\ Cardinality(run.tree) = run.n
                  /\ {f.path.name : f \in run.tree} = 0..(run.n - 1)

OneImagePerIterationWitness ==
    /\ DOMAIN runs = {1}
    /\ runs[1].pc = "done"
    /\ runs[1].n = 2
    /\ \E f \in runs[1].tree : f.path.name = 0 /\ f.image.pasted # <<>>
    /\ \E f \in runs[1].tree : f.path.name = 1 /\ f.path.dir = EmptyDir

\* the file iteration i of the run could not open, if any
FailedOpen(run, i) ==
    \/ /\ HasDraw(run, i, "square")
       /\ Picked(run, i, "square") \in corpus.unreadable
    \/ /\ HasDraw(run, i, "piece_set")
       /\ ~SpriteExists(Picked(run, i, "piece_set"),
                            PieceNameOf(Picked(run, i, "label")) \o <<".", "p", "n", "g">>)

\* C8 as stated: a run that fails in its loop leaves none of its images
\* in the output tree.
AbortLeavesNothing ==
    \A r \in DOMAIN runs : FailedInLoop(runs[r]) => runs[r].tree = {}

\* C8 amended: a square or sprite that cannot be opened in iteration i aborts
\* the run there: no image of iteration i or of a later one is persisted and
\* no later iteration draws, while the images of iterations 0..i-1 stay.
AbortKeepsEarlierImages ==
    \A r \in DOMAIN runs :
        LET run == runs[r]
        IN  /\ \A i \in 0..MaxN :
                  FailedOpen(run, i) =>
                      /\ run.pc \in {"UnidentifiedImageError", "FileNotFoundError"}
                      /\ run.i = i
            /\ FailedInLoop(run) =>
                  /\ run.i < run.n
                  /\ {f.path.name : f \in run.tree} = 0..(run.i - 1)
                  /\ Cardinality(run.tree) = run.i
                  /\ \A k \in 1..Len(run.draws) : run.draws[k].iter <= run.i
                  /\ ~ENABLED (Start(r) \/ Iteration(r) \/ Return(r))

AbortKeepsEarlierImagesWitness ==
    /\ DOMAIN runs = {1}
    /\ runs[1].pc = "FileNotFoundError"
    /\ runs[1].i = 1
    /\ runs[1].n = 2
    /\ Cardinality(runs[1].tree) = 1

\* the draws of an iteration with this label, in order
ExpectedKinds(label) ==
    IF label = EmptyDir THEN <<"label", "square">>
    ELSE <<"label", "square", "piece_set">>

\* C9 as stated: every iteration draws board style id, square position id
\* and decider value, and then, in the piece case, piece set id and piece
\* identity, in this order.
DrawOrderBoardFirst ==
    \A r \in DOMAIN runs :
        \A i \in 0..(runs[r].i - 1) :
            KindsOf(runs[r], i) =
                IF Picked(runs[r], i, "label") = EmptyDir
                THEN <<"board", "square", "decider">>
                ELSE <<"board", "square", "decider", "piece_set", "piece">>

\* C9 amended: every iteration draws in the fixed order label directory
\* (empty or a piece identity), background square and then, in the piece
\* case only, piece style set: two draws in the empty case and three in the
\* piece case, the generator advancing by one per draw.
DrawOrderLabelFirst ==
    \A r \in DOMAIN runs :
        LET run == runs[r]
        IN  /\ run.cursor = Len(run.draws)
            /\ \A k \in 1..(Len(run.draws) - 1) :
                  run.draws[k].iter <= run.draws[k + 1].iter
            /\ \A i \in 0..(run.i - 1) :
                  KindsOf(run, i) = ExpectedKinds(Picked(run, i, "label"))
            /\ \A i \in run.i..MaxN :
                  HasDraw(run, i, "label") =>
                      IsPrefix(KindsOf(run, i), ExpectedKinds(Picked(run, i, "label")))

DrawOrderLabelFirstWitness ==
    /\ DOMAIN runs = {1}
    /\ runs[1].pc = "done"
    /\ runs[1].n = 2
    /\ KindsOf(runs[1], 0) = <<"label", "square">>
    /\ KindsOf(runs[1], 1) = <<"label", "square", "piece_set">>

\* C2: two runs of the same N and mode on the same corpus, the generator
\* seeded alike, persist the same files with the same content and make the
\* same choices, whatever the order of the directory listings.
TwoRunsIdentical ==
    (DOMAIN runs = {1, 2} /\ runs[1].pc = "done" /\ runs[2].pc = "done") =>
        /\ runs[1].tree = runs[2].tree
        /\ runs[1].draws = runs[2].draws

(***************************************************************************)
(* img.paste(piece, mask=piece): PIL pastes at the top left corner, clips  *)
(* the sprite to the image, and blends every band of a covered pixel by    *)
(* the alpha band of the mask, in 8-bit arithmetic.                        *)
(***************************************************************************)
\* PIL's DIV255: a / 255 rounded, by shifts
Div255(a) == LET t == a + 128 IN ((t \div 256) + t) \div 256

BlendThreshold(mask, in1, in2) == IF mask = 0 THEN in1 ELSE in2

\* PIL's BLEND of one band
Blend(mask, in1, in2) == Div255(in1 * (255 - mask) + in2 * mask)

\* the background square opened as RGBA: pixel (y, x)
SquarePixel(bg, y, x) ==
    [ch \in 0..3 |->
        IF ch = 3 THEN bg.alpha ELSE (bg.seed * 53 + y * 5 + x * 9 + ch * 40) % 256]

\* the sprite opened as RGBA: pixel (y, x)
SpritePixel(sp, y, x) ==
    [ch \in 0..3 |->
        IF ch = 3 THEN sp.alpha ELSE (sp.seed * 71 + y * 3 + x * 13 + ch * 90 + 7) % 256]

\* the pixel lies in the box the sprite is pasted into
Covered(bg, sp, y, x) ==
    /\ y < Min(sp.height, bg.height)
    /\ x < Min(sp.width, bg.width)

\* pixel (y, x) of img after img.paste(piece, mask=piece)
PastePixel(bg, sp, y, x) ==
    IF Covered(bg, sp, y, x)
    THEN [ch \in 0..3 |->
             Blend(SpritePixel(sp, y, x)[3], SquarePixel(bg, y, x)[ch],
                   SpritePixel(sp, y, x)[ch])]
    ELSE SquarePixel(bg, y, x)

SquareImages ==
    [height : {TileSide}, width : {TileSide}, seed : 0..MaxSeed, alpha : {255, 90}]

SpriteImages ==
    [height : {TileSide, 20}, width : {TileSide, 60}, seed : 0..MaxSeed, alpha : 0..255]

\* the pixels observed
Observed == {<<0, 0>>, <<19, 49>>, <<20, 10>>, <<49, 49>>}

InitPaste ==
    /\ SplitIdle
    /\ es = EsIdle
    /\ pl = PlIdle
    /\ DataIdle
    /\ \E bg \in SquareImages, sp \in SpriteImages :
          ps = [pc |-> "opened", bg |-> bg, piece |-> sp, at |-> <<0, 0>>, out |-> <<>>]

PasteSprite ==
    /\ ps.pc = "opened"
    /\ \E at \in Observed :
          ps' = [ps EXCEPT !.pc = "pasted", !.at = at,
                           !.out = PastePixel(ps.bg, ps.piece, at[1], at[2])]
    /\ UNCHANGED <<splitVars, es, pl, dataVars>>

NextPaste == PasteSprite

SpecPaste == InitPaste /\ [][NextPaste]_vars

Abs(a) == IF a < 0 THEN -a ELSE a

\* C10 as stated: a covered pixel keeps the background where the sprite's
\* alpha is 0 and takes the sprite's pixel where the alpha is anything else.
PasteReplacesIfAlpha ==
    (ps.pc = "pasted" /\ Covered(ps.bg, ps.piece, ps.at[1], ps.at[2])) =>
        ps.out = IF ps.piece.alpha = 0
                 THEN SquarePixel(ps.bg, ps.at[1], ps.at[2])
                 ELSE SpritePixel(ps.piece, ps.at[1], ps.at[2])

\* C10 amended: a covered pixel keeps the background where the sprite's alpha
\* is 0, takes the sprite's pixel where it is 255, and in between is in each
\* band the mix (bg*(255-alpha) + sprite*alpha)/255 rounded to the nearest
\* value; a pixel the sprite does not cover is unchanged.
PasteBlendsByAlpha ==
    (ps.pc = "pasted") =>
        LET bg == SquarePixel(ps.bg, ps.at[1], ps.at[2])
            sp == SpritePixel(ps.piece, ps.at[1], ps.at[2])
            a == ps.piece.alpha
        IN  IF ~Covered(ps.bg, ps.piece, ps.at[1], ps.at[2]) THEN ps.out = bg
            ELSE /\ (a = 0) => ps.out = bg
                 /\ (a = 255) => ps.out = sp
                 /\ DOMAIN ps.out = 0..3
                 /\ \A ch \in 0..3 :
                       /\ ps.out[ch] \in 0..255
                       /\ 2 * Abs(255 * ps.out[ch] - (bg[ch] * (255 - a) + sp[ch] * a))
                             <= 255

PasteBlendsByAlphaWitness ==
    /\ ps.pc = "pasted"
    /\ Covered(ps.bg, ps.piece, ps.at[1], ps.at[2])
    /\ ps.piece.alpha = 128
    /\ ps.out # SquarePixel(ps.bg, ps.at[1], ps.at[2])
    /\ ps.out # SpritePixel(ps.piece, ps.at[1], ps.at[2])
====
